---- MODULE Spec2Model ----
(***************************************************************************)
(* The small-step evaluator of src/main.rs: the Expression tagged union,   *)
(* is_reducible, the per-variant reduce rules, and Machine::step and       *)
(* Machine::run.                                                            *)
(*                                                                         *)
(* An Expression is a record tagged by "kind", with the fields of the      *)
(* Rust variant.  An Env (HashMap<String, Expression>) is a function from  *)
(* a set of names to expressions.  A reduce call either returns an         *)
(* expression or panics; the rules below return the set of results the     *)
(* call can have, [ok |-> TRUE, expr |-> e] or [ok |-> FALSE, panic |-> m].*)
(***************************************************************************)
EXTENDS Integers, Sequences, FiniteSets, TLC

\* i32::MAX and i32::MIN, the range of the payload of Number (struct Number(i32)).
MaxI32 == 2147483647
MinI32 == (-MaxI32) - 1

\* Largest number of nodes of the enumerated initial trees.
MaxSize == 4
\* Cap on the number of trace lines run prints (never reached by a run that
\* makes progress; it keeps the state space finite if a run does not).
MaxLines == 14

----------------------------------------------------------------------------
(* Expression constructors (enum Expression, lines 52-63).                  *)

NumberExpr(n) == [kind |-> "NumberExpr", n |-> n]
BooleanExpr(b) == [kind |-> "BooleanExpr", b |-> b]
StrExpr(s) == [kind |-> "StrExpr", s |-> s]
DoNothingExpr == [kind |-> "DoNothingExpr"]
VariableExpr(name) == [kind |-> "VariableExpr", name |-> name]
AddExpr(l, r) == [kind |-> "AddExpr", left |-> l, right |-> r]
MultiplyExpr(l, r) == [kind |-> "MultiplyExpr", left |-> l, right |-> r]
LessThanExpr(l, r) == [kind |-> "LessThanExpr", left |-> l, right |-> r]
\* AssignExpr((Assign {name, expression}, Env)): the node carries an Env of its own.
AssignExpr(name, e, env) ==
    [kind |-> "AssignExpr", name |-> name, expression |-> e, env |-> env]
\* TerminalExpr((DoNothing, Env))
TerminalExpr(env) == [kind |-> "TerminalExpr", env |-> env]

\* HashMap::new()
EmptyEnv == [name \in {} |-> DoNothingExpr]
\* HashMap::insert: the binding of name is added or overwritten.
EnvInsert(env, name, value) ==
    [k \in (DOMAIN env) \cup {name} |-> IF k = name THEN value ELSE env[k]]

\* The two ways a call ends: a returned Expression, or a panic with its message.
Ok(e) == [ok |-> TRUE, expr |-> e]
Panic(msg) == [ok |-> FALSE, panic |-> msg]

NoFailure == "none"
\* environment.get(name).unwrap() on a missing key.
PanicUnwrapNone == "called Option::unwrap() on a None value"
PanicInvalidVariable == "Invalid variable"
PanicInvalidExpression == "Invalid expression"
PanicNotImplemented == "Not Implemented"
PanicAddOverflow == "attempt to add with overflow"
PanicMulOverflow == "attempt to multiply with overflow"

----------------------------------------------------------------------------
(* i32 arithmetic.  x + y and x * y on i32 panic on overflow when the build *)
(* has overflow checks (debug profile) and wrap modulo 2^32 when it has not *)
(* (release profile).  All intermediate values stay within the i32 range.   *)

AddOverflows(x, y) ==
    \/ y > 0 /\ x > MaxI32 - y
    \/ y < 0 /\ x < MinI32 - y

\* x + y modulo 2^32, as a twos-complement i32.
WrappingAdd(x, y) ==
    IF y > 0 /\ x > MaxI32 - y THEN (x + MinI32) + (y + MinI32)
    ELSE IF y < 0 /\ x < MinI32 - y THEN (x - MinI32) + (y - MinI32)
    ELSE x + y

MulOverflows(x, y) ==
    IF x = 0 \/ y = 0 THEN FALSE
    ELSE IF x > 0 /\ y > 0 THEN x > MaxI32 \div y
    ELSE IF x > 0 /\ y < 0 THEN y < (MinI32 + (x - 1)) \div x
    ELSE IF x < 0 /\ y > 0 THEN x < (MinI32 + (y - 1)) \div y
    ELSE x = MinI32 \/ y = MinI32 \/ (-x) > MaxI32 \div (-y)

\* x * y modulo 2^32 for y >= 0, by doubling: x * y = (2x) * (y div 2), plus x
\* when y is odd.  d and h are bound as members of one-element sets so that
\* each is computed once.
RECURSIVE WrappingMulNat(_, _)
WrappingMulNat(x, y) ==
    IF y = 0 THEN 0
    ELSE CHOOSE p \in { IF y % 2 = 1 THEN WrappingAdd(h, x) ELSE h
                        : h \in { WrappingMulNat(d, y \div 2)
                                  : d \in {WrappingAdd(x, x)} } } : TRUE

\* x * y modulo 2^32, as a twos-complement i32.  For y < 0,
\* y = (y + 2^31) - 2^31 and x * 2^31 is 2^31 or 0 modulo 2^32.
WrappingMul(x, y) ==
    IF y >= 0 THEN WrappingMulNat(x, y)
    ELSE CHOOSE p \in { WrappingAdd(m, IF x % 2 = 1 THEN MinI32 ELSE 0)
                        : m \in {WrappingMulNat(x, y - MinI32)} } : TRUE

\* Number(x + y) of Add::reduce.
I32Add(x, y, overflow_checks) ==
    IF AddOverflows(x, y)
    THEN IF overflow_checks THEN {Panic(PanicAddOverflow)}
         ELSE {Ok(NumberExpr(WrappingAdd(x, y)))}
    ELSE {Ok(NumberExpr(x + y))}

\* Number(x * y) of Multiply::reduce.
I32Mul(x, y, overflow_checks) ==
    IF MulOverflows(x, y)
    THEN IF overflow_checks THEN {Panic(PanicMulOverflow)}
         ELSE {Ok(NumberExpr(WrappingMul(x, y)))}
    ELSE {Ok(NumberExpr(x * y))}

----------------------------------------------------------------------------
(* impl Reducible for Expression                                            *)

is_reducible(e) ==
    e.kind \in {"AddExpr", "MultiplyExpr", "LessThanExpr", "VariableExpr", "AssignExpr"}

\* In each rule below, the result s of reducing a sub-expression is put back
\* into a node of the same kind; a panic of the inner call unwinds through
\* the outer one.
RECURSIVE reduce(_, _, _)
RECURSIVE Add_reduce(_, _, _)
RECURSIVE Multiply_reduce(_, _, _)
RECURSIVE LessThan_reduce(_, _, _)
RECURSIVE Assign_reduce(_, _, _)

\* Variable::reduce without the StrExpr arm.
Variable_reduce_NoStr(self, environment) ==
    IF self.name \notin DOMAIN environment THEN {Panic(PanicUnwrapNone)}
    ELSE LET v == environment[self.name]
         IN  IF v.kind = "NumberExpr" THEN {Ok(NumberExpr(v.n))}
             ELSE {Panic(PanicInvalidVariable)}

\* Variable::reduce with unwrap_or(Number(0)) in place of unwrap.
Variable_reduce_DefaultZero(self, environment) ==
    LET v == IF self.name \in DOMAIN environment
             THEN environment[self.name] ELSE NumberExpr(0)
    IN  IF v.kind = "NumberExpr" THEN {Ok(NumberExpr(v.n))}
        ELSE IF v.kind = "StrExpr" THEN {Ok(StrExpr(v.s))}
        ELSE {Panic(PanicInvalidVariable)}

\* Variable::reduce taking environment.values().next() in place of get(name):
\* whichever binding the HashMap iterates first.
Variable_reduce_AnyBinding(self, environment) ==
    IF DOMAIN environment = {} THEN {Panic(PanicUnwrapNone)}
    ELSE { LET v == environment[k]
           IN  IF v.kind = "NumberExpr" THEN Ok(NumberExpr(v.n))
               ELSE IF v.kind = "StrExpr" THEN Ok(StrExpr(v.s))
               ELSE Panic(PanicInvalidVariable)
           : k \in DOMAIN environment }

Variable_reduce(self, environment) ==
    IF self.name \notin DOMAIN environment THEN {Panic(PanicUnwrapNone)}
    ELSE LET v == environment[self.name]
         IN  IF v.kind = "NumberExpr" THEN {Ok(NumberExpr(v.n))}
             ELSE IF v.kind = "StrExpr" THEN {Ok(StrExpr(v.s))}
             ELSE {Panic(PanicInvalidVariable)}

\* Add::reduce with the two branches in the other order: right side first.
Add_reduce_RightFirst(self, environment, oc) ==
    IF is_reducible(self.right)
    THEN { IF s.ok THEN Ok(AddExpr(self.left, s.expr)) ELSE s
           : s \in reduce(self.right, environment, oc) }
    ELSE IF is_reducible(self.left)
    THEN { IF s.ok THEN Ok(AddExpr(s.expr, self.right)) ELSE s
           : s \in reduce(self.left, environment, oc) }
    ELSE IF self.left.kind = "NumberExpr" /\ self.right.kind = "NumberExpr"
    THEN I32Add(self.left.n, self.right.n, oc)
    ELSE {Panic(PanicInvalidExpression)}

\* Add::reduce with left: self.left.clone() in its first branch: the reduced
\* left side is dropped.
Add_reduce_KeepsLeft(self, environment, oc) ==
    IF is_reducible(self.left)
    THEN { IF s.ok THEN Ok(AddExpr(self.left, self.right)) ELSE s
           : s \in reduce(self.left, environment, oc) }
    ELSE IF is_reducible(self.right)
    THEN { IF s.ok THEN Ok(AddExpr(self.left, s.expr)) ELSE s
           : s \in reduce(self.right, environment, oc) }
    ELSE IF self.left.kind = "NumberExpr" /\ self.right.kind = "NumberExpr"
    THEN I32Add(self.left.n, self.right.n, oc)
    ELSE {Panic(PanicInvalidExpression)}

Add_reduce(self, environment, oc) ==
    IF is_reducible(self.left)
    THEN { IF s.ok THEN Ok(AddExpr(s.expr, self.right)) ELSE s
           : s \in reduce(self.left, environment, oc) }
    ELSE IF is_reducible(self.right)
    THEN { IF s.ok THEN Ok(AddExpr(self.left, s.expr)) ELSE s
           : s \in reduce(self.right, environment, oc) }
    ELSE IF self.left.kind = "NumberExpr" /\ self.right.kind = "NumberExpr"
    THEN I32Add(self.left.n, self.right.n, oc)
    ELSE {Panic(PanicInvalidExpression)}

\* Multiply::reduce reducing both sides in one call when both have work.
Multiply_reduce_BothSides(self, environment, oc) ==
    IF is_reducible(self.left) /\ is_reducible(self.right)
    THEN { IF ~l.ok THEN l
           ELSE IF ~r.ok THEN r
           ELSE Ok(MultiplyExpr(l.expr, r.expr))
           : l \in reduce(self.left, environment, oc),
             r \in reduce(self.right, environment, oc) }
    ELSE IF is_reducible(self.left)
    THEN { IF s.ok THEN Ok(MultiplyExpr(s.expr, self.right)) ELSE s
           : s \in reduce(self.left, environment, oc) }
    ELSE IF is_reducible(self.right)
    THEN { IF s.ok THEN Ok(MultiplyExpr(self.left, s.expr)) ELSE s
           : s \in reduce(self.right, environment, oc) }
    ELSE IF self.left.kind = "NumberExpr" /\ self.right.kind = "NumberExpr"
    THEN I32Mul(self.left.n, self.right.n, oc)
    ELSE {Panic(PanicInvalidExpression)}

Multiply_reduce(self, environment, oc) ==
    IF is_reducible(self.left)
    THEN { IF s.ok THEN Ok(MultiplyExpr(s.expr, self.right)) ELSE s
           : s \in reduce(self.left, environment, oc) }
    ELSE IF is_reducible(self.right)
    THEN { IF s.ok THEN Ok(MultiplyExpr(self.left, s.expr)) ELSE s
           : s \in reduce(self.right, environment, oc) }
    ELSE IF self.left.kind = "NumberExpr" /\ self.right.kind = "NumberExpr"
    THEN I32Mul(self.left.n, self.right.n, oc)
    ELSE {Panic(PanicInvalidExpression)}

\* LessThan::reduce with (_, _) => Boolean::False in place of the panic.
LessThan_reduce_Lenient(self, environment, oc) ==
    IF is_reducible(self.left)
    THEN { IF s.ok THEN Ok(LessThanExpr(s.expr, self.right)) ELSE s
           : s \in reduce(self.left, environment, oc) }
    ELSE IF is_reducible(self.right)
    THEN { IF s.ok THEN Ok(LessThanExpr(self.left, s.expr)) ELSE s
           : s \in reduce(self.right, environment, oc) }
    ELSE IF self.left.kind = "NumberExpr" /\ self.right.kind = "NumberExpr"
    THEN {Ok(BooleanExpr(self.left.n < self.right.n))}
    ELSE {Ok(BooleanExpr(FALSE))}

LessThan_reduce(self, environment, oc) ==
    IF is_reducible(self.left)
    THEN { IF s.ok THEN Ok(LessThanExpr(s.expr, self.right)) ELSE s
           : s \in reduce(self.left, environment, oc) }
    ELSE IF is_reducible(self.right)
    THEN { IF s.ok THEN Ok(LessThanExpr(self.left, s.expr)) ELSE s
           : s \in reduce(self.right, environment, oc) }
    ELSE IF self.left.kind = "NumberExpr" /\ self.right.kind = "NumberExpr"
    THEN {Ok(BooleanExpr(self.left.n < self.right.n))}
    ELSE {Panic(PanicInvalidExpression)}

\* Assign::reduce storing the right-hand side as it stands, reduced or not.
Assign_reduce_StoresUnreduced(self, environment, oc) ==
    {Ok(TerminalExpr(EnvInsert(environment, self.name, self.expression)))}

\* Assign::reduce committing into a fresh map instead of the environment.
Assign_reduce_FreshEnv(self, environment, oc) ==
    IF is_reducible(self.expression)
    THEN { IF s.ok THEN Ok(AssignExpr(self.name, s.expr, environment)) ELSE s
           : s \in reduce(self.expression, environment, oc) }
    ELSE {Ok(TerminalExpr(EnvInsert(EmptyEnv, self.name, self.expression)))}

Assign_reduce(self, environment, oc) ==
    IF is_reducible(self.expression)
    THEN { IF s.ok THEN Ok(AssignExpr(self.name, s.expr, environment)) ELSE s
           : s \in reduce(self.expression, environment, oc) }
    ELSE {Ok(TerminalExpr(EnvInsert(environment, self.name, self.expression)))}

\* Expression::reduce handing Assign::reduce the Env carried by the node.
reduce_UsesEmbedded(self, environment, oc) ==
    CASE self.kind = "AddExpr" -> Add_reduce(self, environment, oc)
      [] self.kind = "MultiplyExpr" -> Multiply_reduce(self, environment, oc)
      [] self.kind = "LessThanExpr" -> LessThan_reduce(self, environment, oc)
      [] self.kind = "VariableExpr" -> Variable_reduce(self, environment)
      [] self.kind = "AssignExpr" -> Assign_reduce(self, self.env, oc)
      [] OTHER -> {Panic(PanicNotImplemented)}

reduce(self, environment, oc) ==
    CASE self.kind = "AddExpr" -> Add_reduce(self, environment, oc)
      [] self.kind = "MultiplyExpr" -> Multiply_reduce(self, environment, oc)
      [] self.kind = "LessThanExpr" -> LessThan_reduce(self, environment, oc)
      [] self.kind = "VariableExpr" -> Variable_reduce(self, environment)
      [] self.kind = "AssignExpr" -> Assign_reduce(self, environment, oc)
      [] OTHER -> {Panic(PanicNotImplemented)}

----------------------------------------------------------------------------
(* impl fmt::Display: the rendering of an expression, as the sequence of    *)
(* the pieces written, in order.                                            *)

Digit(d) == <<"0", "1", "2", "3", "4", "5", "6", "7", "8", "9">>[d + 1]

\* The decimal digits of -n, for n <= 0 (so that i32::MIN needs no negation).
RECURSIVE DecimalOfNonPositive(_)
DecimalOfNonPositive(n) ==
    IF n > -10 THEN <<Digit(-n)>>
    ELSE DecimalOfNonPositive((n + 9) \div 10) \o <<Digit((10 - (n % 10)) % 10)>>

\* Display for Number: write!(f, "{}", self.0)
DisplayNumber(n) ==
    IF n < 0 THEN <<"-">> \o DecimalOfNonPositive(n) ELSE DecimalOfNonPositive(-n)

RECURSIVE Display(_)
Display(e) ==
    CASE e.kind = "AddExpr" -> Display(e.left) \o <<" + ">> \o Display(e.right)
      [] e.kind = "MultiplyExpr" -> Display(e.left) \o <<" * ">> \o Display(e.right)
      [] e.kind = "NumberExpr" -> DisplayNumber(e.n)
      [] e.kind = "LessThanExpr" -> Display(e.left) \o <<" < ">> \o Display(e.right)
      [] e.kind = "BooleanExpr" -> IF e.b THEN <<"true">> ELSE <<"false">>
      [] e.kind = "VariableExpr" -> <<e.name>>
      [] e.kind = "StrExpr" -> <<e.s>>
      [] e.kind = "DoNothingExpr" -> <<"do-nothing">>
      [] e.kind = "AssignExpr" -> <<e.name, " = ">> \o Display(e.expression)
      [] e.kind = "TerminalExpr" -> <<"do-nothing">>

\* println!("{}, {:?}", self.expression, self.environment): the expression by
\* Display, the environment by Debug, which writes every binding in full, in
\* an order HashMap does not fix: the line holds the bindings as a mapping.
Line(e, env) == [expression |-> Display(e), environment |-> env]

----------------------------------------------------------------------------
(* The trees and environments a caller hands to the Machine.                *)

Names == {"x", "y"}
Payloads == {-1, 2, MaxI32}

\* let mut env = HashMap::new(); env.insert("x", Number(2))
MainEnv == [name \in {"x"} |-> NumberExpr(2)]

InitEnvs ==
    { EmptyEnv,
      MainEnv,
      [name \in Names |-> IF name = "x" THEN NumberExpr(MaxI32) ELSE StrExpr("s")],
      [name \in Names |-> IF name = "x" THEN BooleanExpr(TRUE) ELSE NumberExpr(-1)] }

Leaves ==
    {NumberExpr(n) : n \in Payloads}
      \cup {VariableExpr(name) : name \in Names}
      \cup {BooleanExpr(TRUE), StrExpr("s"), DoNothingExpr, TerminalExpr(EmptyEnv)}

\* The trees of exactly n nodes over Leaves.
RECURSIVE Trees(_)
Trees(n) ==
    IF n = 1 THEN Leaves
    ELSE {AssignExpr(name, e, EmptyEnv) : name \in Names, e \in Trees(n - 1)}
           \cup UNION { UNION { {AddExpr(l, r), MultiplyExpr(l, r), LessThanExpr(l, r)}
                                : l \in Trees(i), r \in Trees(n - 1 - i) }
                        : i \in 1 .. (n - 2) }

\* The trees built in main.
MainA == AddExpr(NumberExpr(5), MultiplyExpr(NumberExpr(4), NumberExpr(4)))
MainB == AddExpr(NumberExpr(5), NumberExpr(4))
MainC == AddExpr(NumberExpr(5), AddExpr(NumberExpr(5), NumberExpr(6)))
MainD == LessThanExpr(MainA, MainC)
MainE == AddExpr(VariableExpr("x"), VariableExpr("y"))
MainF == AssignExpr("x", AddExpr(VariableExpr("x"), NumberExpr(1)), EmptyEnv)

\* Two-level trees: an operator over two operator nodes, so that both sides
\* of the root have work to do.
SmallOps ==
    LET Atoms == {NumberExpr(2), NumberExpr(MaxI32), VariableExpr("x"), StrExpr("s")}
    IN  UNION { {AddExpr(l, r), MultiplyExpr(l, r), LessThanExpr(l, r)}
                : l \in Atoms, r \in Atoms }
Nested ==
    UNION { {AddExpr(l, r), MultiplyExpr(l, r), LessThanExpr(l, r)}
            : l \in SmallOps, r \in {MainB, MainE, MultiplyExpr(NumberExpr(2), NumberExpr(-1))} }
      \cup {AssignExpr("y", t, MainEnv) : t \in SmallOps}

InitTrees ==
    UNION {Trees(n) : n \in 1 .. MaxSize}
      \cup {MainA, MainB, MainC, MainD, MainE, MainF}
      \cup Nested

----------------------------------------------------------------------------
(* struct Machine, and the position of its caller.                          *)

VARIABLES
    expression,       \* Machine.expression
    environment,      \* Machine.environment
    overflow_checks,  \* whether the build checks i32 overflow (debug) or wraps
    pc,               \* "run": in the loop of run; "done": run returned;
                      \* "aborted": a panic unwound the program
    failure,          \* the panic message, or NoFailure
    trace,            \* the lines printed so far
    prev,             \* <<the Machine as it was before the latest step>>, or << >>
    start,            \* the Machine as it was constructed
    steps,            \* the number of calls of step so far
    twin              \* a second Machine, run beside the first on the same
                      \* build: its expression, environment, pc, failure,
                      \* trace, and the tree it was constructed with

vars ==
    <<expression, environment, overflow_checks, pc, failure, trace, prev, start, steps,
      twin>>

\* Machine { expression: e, environment: env }, about to be run.
Machine(e, env) ==
    [expression |-> e, environment |-> env, pc |-> "run", failure |-> NoFailure,
     trace |-> << >>, start |-> e]

Init ==
    /\ expression \in InitTrees
    /\ environment \in InitEnvs
    /\ overflow_checks \in BOOLEAN
    /\ pc = "run"
    /\ failure = NoFailure
    /\ trace = << >>
    /\ prev = << >>
    /\ start = [expression |-> expression, environment |-> environment]
    /\ steps = 0
    /\ twin = Machine(expression, environment)

\* Machine::step on a Machine holding (e, env): one reduce of e under a clone
\* of env.  A TerminalExpr result replaces the environment too; a panic
\* unwinds before either field is assigned.  The outcomes of the call: the
\* Machine it leaves, and the panic message if it panicked.
Machine_step(e, env, oc) ==
    { IF s.ok
      THEN [expression |-> s.expr,
            environment |-> IF s.expr.kind = "TerminalExpr" THEN s.expr.env ELSE env,
            failure |-> NoFailure]
      ELSE [expression |-> e, environment |-> env, failure |-> s.panic]
      : s \in reduce(e, env, oc) }

\* self.step() with the panic caught, so that the loop of run goes on.
step_Resumes ==
    \E o \in Machine_step(expression, environment, overflow_checks) :
        /\ prev' = <<[expression |-> expression, environment |-> environment]>>
        /\ expression' = o.expression
        /\ environment' = o.environment
        /\ failure' = o.failure
        /\ pc' = pc
        /\ steps' = steps + 1
        /\ UNCHANGED <<overflow_checks, start>>

\* self.step()
step ==
    \E o \in Machine_step(expression, environment, overflow_checks) :
        /\ prev' = <<[expression |-> expression, environment |-> environment]>>
        /\ expression' = o.expression
        /\ environment' = o.environment
        /\ failure' = o.failure
        /\ pc' = IF o.failure = NoFailure THEN pc ELSE "aborted"
        /\ steps' = steps + 1
        /\ UNCHANGED <<overflow_checks, start>>

\* One turn of run on the Machine m: an iteration of the loop (the test, the
\* println and the step) or its exit (the final println); none once run has
\* returned or panicked.
Machine_run(m, oc) ==
    IF m.pc # "run" \/ Len(m.trace) >= MaxLines
    THEN {m}
    ELSE IF is_reducible(m.expression)
    THEN { [m EXCEPT !.expression = o.expression,
                     !.environment = o.environment,
                     !.failure = o.failure,
                     !.pc = IF o.failure = NoFailure THEN "run" ELSE "aborted",
                     !.trace = Append(m.trace, Line(m.expression, m.environment))]
           : o \in Machine_step(m.expression, m.environment, oc) }
    ELSE { [m EXCEPT !.pc = "done",
                     !.trace = Append(m.trace, Line(m.expression, m.environment))] }

\* The loop of run with the println after the step instead of before it.
RunLoop_PrintsAfter ==
    /\ pc = "run"
    /\ is_reducible(expression)
    /\ Len(trace) < MaxLines
    /\ step
    /\ trace' = Append(trace, Line(expression', environment'))
    /\ twin' \in Machine_run(twin, overflow_checks)

\* One iteration of the loop of run: the test, the println and the step.
RunLoop ==
    /\ pc = "run"
    /\ is_reducible(expression)
    /\ Len(trace) < MaxLines
    /\ trace' = Append(trace, Line(expression, environment))
    /\ step
    /\ twin' \in Machine_run(twin, overflow_checks)

\* The loop of run ends: the final println, and run returns.
RunExit ==
    /\ pc = "run"
    /\ ~is_reducible(expression)
    /\ Len(trace) < MaxLines
    /\ trace' = Append(trace, Line(expression, environment))
    /\ pc' = "done"
    /\ UNCHANGED <<expression, environment, overflow_checks, failure, prev, start, steps>>
    /\ twin' \in Machine_run(twin, overflow_checks)

Next == RunLoop \/ RunExit

\* main: machine.run()
Spec == Init /\ [][Next]_vars

\* The program is one thread that keeps executing until it returns or panics.
LiveSpec == Spec /\ WF_vars(Next)

\* The tree e with env as the Env carried by each of its Assign nodes.
RECURSIVE Reembed(_, _)
Reembed(e, env) ==
    CASE e.kind = "AddExpr" -> AddExpr(Reembed(e.left, env), Reembed(e.right, env))
      [] e.kind = "MultiplyExpr" ->
             MultiplyExpr(Reembed(e.left, env), Reembed(e.right, env))
      [] e.kind = "LessThanExpr" ->
             LessThanExpr(Reembed(e.left, env), Reembed(e.right, env))
      [] e.kind = "AssignExpr" -> AssignExpr(e.name, Reembed(e.expression, env), env)
      [] OTHER -> e

\* Two Machines constructed with the same environment and the same tree but
\* for the Envs carried by its Assign nodes.
TwinInit ==
    /\ expression \in InitTrees
    /\ environment \in InitEnvs
    /\ overflow_checks \in BOOLEAN
    /\ pc = "run"
    /\ failure = NoFailure
    /\ trace = << >>
    /\ prev = << >>
    /\ start = [expression |-> expression, environment |-> environment]
    /\ steps = 0
    /\ \E env \in InitEnvs :
           /\ Reembed(expression, env) # expression
           /\ twin = Machine(Reembed(expression, env), environment)

\* Both Machines run.
TwinSpec == TwinInit /\ [][Next]_vars

\* A caller that invokes step itself, whatever the current expression is.
StepCall ==
    /\ pc = "run"
    /\ step
    /\ UNCHANGED <<trace, twin>>

NextStep == StepCall

StepSpec == Init /\ [][NextStep]_vars

----------------------------------------------------------------------------
(* The standard integer evaluation of an arithmetic tree, against which the *)
(* results of a run are compared.  The integers here are not bounded: a     *)
(* value is a sign and a magnitude, the magnitude a sequence of limbs in    *)
(* base Base, least significant first, with no leading zero limb.           *)

Base == 128 * 256

\* The magnitude of -n, for n <= 0.
RECURSIVE MagOfNonPositive(_)
MagOfNonPositive(n) ==
    IF n = 0 THEN << >>
    ELSE <<(Base - (n % Base)) % Base>> \o MagOfNonPositive((n + (Base - 1)) \div Base)

Trim(m) ==
    LET nonzero == {i \in 1 .. Len(m) : m[i] # 0}
    IN  IF nonzero = {} THEN << >>
        ELSE SubSeq(m, 1, CHOOSE i \in nonzero : \A j \in nonzero : j <= i)

LimbAt(m, i) == IF i <= Len(m) THEN m[i] ELSE 0
Rest(m) == IF m = << >> THEN << >> ELSE Tail(m)

RECURSIVE MagAdd(_, _, _)
MagAdd(a, b, carry) ==
    IF a = << >> /\ b = << >> THEN (IF carry = 0 THEN << >> ELSE <<carry>>)
    ELSE LET t == LimbAt(a, 1) + LimbAt(b, 1) + carry
         IN  <<t % Base>> \o MagAdd(Rest(a), Rest(b), t \div Base)

\* a - b for a >= b, before trimming.
RECURSIVE MagSub(_, _, _)
MagSub(a, b, borrow) ==
    IF a = << >> THEN << >>
    ELSE LET t == LimbAt(a, 1) - LimbAt(b, 1) - borrow
         IN  <<t % Base>> \o MagSub(Rest(a), Rest(b), IF t < 0 THEN 1 ELSE 0)

RECURSIVE MagLess(_, _)
MagLess(a, b) ==
    IF Len(a) # Len(b) THEN Len(a) < Len(b)
    ELSE IF a = << >> THEN FALSE
    ELSE IF a[Len(a)] # b[Len(b)] THEN a[Len(a)] < b[Len(b)]
    ELSE MagLess(SubSeq(a, 1, Len(a) - 1), SubSeq(b, 1, Len(b) - 1))

RECURSIVE MagMulLimb(_, _, _)
MagMulLimb(a, d, carry) ==
    IF a = << >> THEN (IF carry = 0 THEN << >> ELSE <<carry>>)
    ELSE LET t == (Head(a) * d) + carry
         IN  <<t % Base>> \o MagMulLimb(Tail(a), d, t \div Base)

RECURSIVE MagMul(_, _)
MagMul(a, b) ==
    IF a = << >> \/ b = << >> THEN << >>
    ELSE LET high == MagMul(a, Tail(b))
         IN  MagAdd(Trim(MagMulLimb(a, Head(b), 0)),
                    IF high = << >> THEN << >> ELSE <<0>> \o high, 0)

Big(neg, mag) == [neg |-> neg /\ mag # << >>, mag |-> mag]
\* The integer n of the i32 range.
ToBig(n) == Big(n < 0, MagOfNonPositive(IF n < 0 THEN n ELSE -n))
BigAdd(x, y) ==
    IF x.neg = y.neg THEN Big(x.neg, MagAdd(x.mag, y.mag, 0))
    ELSE IF MagLess(x.mag, y.mag) THEN Big(y.neg, Trim(MagSub(y.mag, x.mag, 0)))
    ELSE Big(x.neg, Trim(MagSub(x.mag, y.mag, 0)))
BigMul(x, y) == Big(x.neg # y.neg, MagMul(x.mag, y.mag))
BigLess(x, y) ==
    IF x.neg # y.neg THEN x.neg
    ELSE IF x.neg THEN MagLess(y.mag, x.mag)
    ELSE MagLess(x.mag, y.mag)

\* e is built only from Number, Add, Multiply and Variables that env binds to
\* a Number (with env empty: only from Number, Add and Multiply).
RECURSIVE IsArithmetic(_, _)
IsArithmetic(e, env) ==
    CASE e.kind = "NumberExpr" -> TRUE
      [] e.kind = "VariableExpr" ->
            e.name \in DOMAIN env /\ env[e.name].kind = "NumberExpr"
      [] e.kind \in {"AddExpr", "MultiplyExpr"} ->
            IsArithmetic(e.left, env) /\ IsArithmetic(e.right, env)
      [] OTHER -> FALSE

\* The integer value of an arithmetic tree under env.
RECURSIVE Eval(_, _)
Eval(e, env) ==
    CASE e.kind = "NumberExpr" -> ToBig(e.n)
      [] e.kind = "VariableExpr" -> ToBig(env[e.name].n)
      [] e.kind = "AddExpr" -> BigAdd(Eval(e.left, env), Eval(e.right, env))
      [] e.kind = "MultiplyExpr" -> BigMul(Eval(e.left, env), Eval(e.right, env))

\* run is over: it returned, or a panic ended it.
RunOver == pc \in {"done", "aborted"}

----------------------------------------------------------------------------
(* The claims.  prev[1] is the Machine as it was before the latest step and *)
(* start the Machine as constructed.                                        *)

Stepped == prev # << >>
Before == prev[1]

\* C1 (Assignment commit): a run started with Assign(n, e), e built only from
\* Number, Add, Multiply and Variables the initial environment binds to
\* Numbers, ends Halted with a Terminal-with-environment expression rendered
\* do-nothing, and with n bound to Number(v), v the integer value of e under
\* the initial environment.
C1_AssignmentCommit ==
    ( /\ RunOver
      /\ start.expression.kind = "AssignExpr"
      /\ IsArithmetic(start.expression.expression, start.environment) )
    => /\ pc = "done"
       /\ expression.kind = "TerminalExpr"
       /\ Display(expression) = <<"do-nothing">>
       /\ start.expression.name \in DOMAIN environment
       /\ environment[start.expression.name].kind = "NumberExpr"
       /\ ToBig(environment[start.expression.name].n)
            = Eval(start.expression.expression, start.environment)

\* C2 (Arithmetic correctness): a run started with a tree built only from
\* Number, Add and Multiply ends with a single Number whose payload is the
\* standard integer evaluation of the tree, whatever the environment is.
C2_ArithmeticCorrectness ==
    (RunOver /\ IsArithmetic(start.expression, EmptyEnv))
    => /\ pc = "done"
       /\ expression.kind = "NumberExpr"
       /\ ToBig(expression.n) = Eval(start.expression, EmptyEnv)

\* C3 (Comparison correctness): a run started with LessThan(L, R), L and R
\* built only from Number, Add and Multiply, halts with
\* Boolean(eval(L) < eval(R)).
C3_ComparisonCorrectness ==
    ( /\ RunOver
      /\ start.expression.kind = "LessThanExpr"
      /\ IsArithmetic(start.expression.left, EmptyEnv)
      /\ IsArithmetic(start.expression.right, EmptyEnv) )
    => /\ pc = "done"
       /\ expression = BooleanExpr(BigLess(Eval(start.expression.left, EmptyEnv),
                                           Eval(start.expression.right, EmptyEnv)))

BinaryKinds == {"AddExpr", "MultiplyExpr", "LessThanExpr"}

\* A step took the Machine from tree b to tree a: at every Add, Multiply or
\* LessThan node on the way to the redex whose left side is reducible, the
\* node is still there and its right side is as it was.
RECURSIVE LeftFirst(_, _)
LeftFirst(b, a) ==
    IF b.kind \in BinaryKinds /\ is_reducible(b.left)
    THEN a.kind = b.kind /\ a.right = b.right /\ LeftFirst(b.left, a.left)
    ELSE IF b.kind \in BinaryKinds /\ is_reducible(b.right)
    THEN a.kind = b.kind /\ LeftFirst(b.right, a.right)
    ELSE IF b.kind = "AssignExpr" /\ is_reducible(b.expression)
    THEN a.kind = b.kind /\ LeftFirst(b.expression, a.expression)
    ELSE TRUE

\* C4 (Left-to-right order): a step on an Add, Multiply or LessThan node whose
\* left sub-expression is reducible rewrites only that left sub-expression and
\* leaves the right one identical, at the root and at every nested node; so
\* no step of a run changes a right side while the left one is reducible.
C4_LeftToRight == Stepped => LeftFirst(Before.expression, expression)

\* A step was taken on a node whose two sides were reducible, the left one
\* itself an operator node with a reducible left side.
C4_Witness ==
    /\ Stepped
    /\ failure = NoFailure
    /\ Before.expression.kind \in BinaryKinds
    /\ is_reducible(Before.expression.right)
    /\ Before.expression.left.kind \in BinaryKinds
    /\ is_reducible(Before.expression.left.left)
    /\ expression.left # Before.expression.left
    /\ expression.right = Before.expression.right

\* C5 (Idempotence at terminal): a step (a reduce call) on a Machine whose
\* current expression is terminal does not fail, and leaves an expression
\* equal to the current one and the environment unchanged.
C5_IdempotentAtTerminal ==
    (Stepped /\ ~is_reducible(Before.expression))
    => /\ failure = NoFailure
       /\ pc # "aborted"
       /\ expression = Before.expression
       /\ environment = Before.environment

\* C6 (Variable substitution): one step from Variable(x), under an environment
\* that binds x to a Number or StringLiteral v, yields exactly v and leaves
\* the environment unchanged.
C6_VariableSubstitution ==
    ( /\ Stepped
      /\ Before.expression.kind = "VariableExpr"
      /\ Before.expression.name \in DOMAIN Before.environment
      /\ Before.environment[Before.expression.name].kind \in {"NumberExpr", "StrExpr"} )
    => /\ failure = NoFailure
       /\ expression = Before.environment[Before.expression.name]
       /\ environment = Before.environment

\* A step replaced Variable(y) by the StringLiteral bound to y, in an
\* environment that also binds x.
C6_Witness ==
    /\ Stepped
    /\ Before.expression = VariableExpr("y")
    /\ DOMAIN Before.environment = {"x", "y"}
    /\ expression = StrExpr("s")
    /\ environment = Before.environment

\* The redex of a tree: the node the next step rewrites, found left to right,
\* innermost first.
RECURSIVE NextRedex(_)
NextRedex(e) ==
    IF e.kind \in BinaryKinds /\ is_reducible(e.left) THEN NextRedex(e.left)
    ELSE IF e.kind \in BinaryKinds /\ is_reducible(e.right) THEN NextRedex(e.right)
    ELSE IF e.kind = "AssignExpr" /\ is_reducible(e.expression) THEN NextRedex(e.expression)
    ELSE e

\* C7 (Undefined variable): when the next redex is a Variable(x), at the root
\* or nested, and x is not a key of the environment, the step ends in the
\* fatal failure of the lookup and produces no next expression.
C7_UndefinedVariable ==
    ( /\ Stepped
      /\ NextRedex(Before.expression).kind = "VariableExpr"
      /\ NextRedex(Before.expression).name \notin DOMAIN Before.environment )
    => /\ failure = PanicUnwrapNone
       /\ pc = "aborted"
       /\ expression = Before.expression
       /\ environment = Before.environment

\* A step failed on an unbound Variable nested under an Assign and an operator.
C7_Witness ==
    /\ Stepped
    /\ Before.expression.kind = "AssignExpr"
    /\ Before.expression.expression.kind \in BinaryKinds
    /\ NextRedex(Before.expression).kind = "VariableExpr"
    /\ NextRedex(Before.expression).name \notin DOMAIN Before.environment
    /\ failure = PanicUnwrapNone

\* C8 (Type mismatch): when the next redex is an Add, Multiply or LessThan
\* node whose two sub-expressions are irreducible and not both Number, the
\* step ends in the fatal type failure and produces no value.
C8_TypeMismatch ==
    ( /\ Stepped
      /\ NextRedex(Before.expression).kind \in BinaryKinds
      /\ ~is_reducible(NextRedex(Before.expression).left)
      /\ ~is_reducible(NextRedex(Before.expression).right)
      /\ ~( /\ NextRedex(Before.expression).left.kind = "NumberExpr"
            /\ NextRedex(Before.expression).right.kind = "NumberExpr" ) )
    => /\ failure = PanicInvalidExpression
       /\ pc = "aborted"
       /\ expression = Before.expression
       /\ environment = Before.environment

\* A step failed on a nested LessThan of a Number and a
\* Terminal-with-environment.
C8_Witness ==
    /\ Stepped
    /\ Before.expression.kind # "LessThanExpr"
    /\ NextRedex(Before.expression).kind = "LessThanExpr"
    /\ NextRedex(Before.expression).left.kind = "NumberExpr"
    /\ NextRedex(Before.expression).right.kind = "TerminalExpr"
    /\ failure = PanicInvalidExpression

\* C9 (Determinism): step is a function of the Machine: executing step again
\* from the (expression, environment) pair the latest step started from has
\* one outcome only, the one that step had: the same next pair, or the same
\* failure.
C9_Determinism ==
    Stepped =>
        Machine_step(Before.expression, Before.environment, overflow_checks)
          = {[expression |-> expression, environment |-> environment,
              failure |-> failure]}

\* A step looked a Variable up in an environment of two bindings, and one
\* that committed an assignment.
C9_Witness ==
    /\ Stepped
    /\ failure = NoFailure
    /\ \/ /\ NextRedex(Before.expression).kind = "VariableExpr"
          /\ Cardinality(DOMAIN Before.environment) = 2
          /\ expression.kind \in BinaryKinds
       \/ /\ expression.kind = "TerminalExpr"
          /\ environment # Before.environment

\* C10 (Termination): run performs finitely many steps: it returns with the
\* current expression irreducible, or a fatal failure ends it.
C10_Termination == <>RunOver

\* A run returned after five steps.
C10_Witness ==
    /\ pc = "done"
    /\ ~is_reducible(expression)
    /\ Len(trace) = 6

\* C11 (Run trace): run prints one line for each step it performs, showing
\* the (expression, environment) pair held just before that step, and exactly
\* one final line showing the halted pair: a run of k steps that halts has
\* printed k + 1 lines, and run takes no step from a terminal expression.
C11_RunTrace ==
    /\ Len(trace) = steps + (IF pc = "done" THEN 1 ELSE 0)
    /\ Stepped => /\ trace[steps] = Line(Before.expression, Before.environment)
                  /\ is_reducible(Before.expression)
    /\ pc = "done" => /\ ~is_reducible(expression)
                      /\ trace[Len(trace)] = Line(expression, environment)

\* A run halted after three steps that included a commit, with four lines.
C11_Witness ==
    /\ pc = "done"
    /\ steps = 3
    /\ Len(trace) = 4
    /\ expression.kind = "TerminalExpr"
    /\ trace[3].environment # trace[4].environment

\* The kinds of value the environment is meant to hold.
StorableKinds == {"NumberExpr", "StrExpr"}

OnlyStorable(env) == \A name \in DOMAIN env : env[name].kind \in StorableKinds

\* C12 (Environment values are Number or StringLiteral only): from an initial
\* environment whose values are all Number or StringLiteral, after any
\* sequence of steps from any initial expression every value stored in the
\* environment is a Number or a StringLiteral.
C12_StoredKinds == OnlyStorable(start.environment) => OnlyStorable(environment)

\* A TerminalExpr node occurs somewhere in the tree e.
RECURSIVE HasTerminal(_)
HasTerminal(e) ==
    CASE e.kind = "TerminalExpr" -> TRUE
      [] e.kind \in BinaryKinds -> HasTerminal(e.left) \/ HasTerminal(e.right)
      [] e.kind = "AssignExpr" -> HasTerminal(e.expression)
      [] OTHER -> FALSE

\* A TerminalExpr node occurs in e below its root.
HasInnerTerminal(e) ==
    CASE e.kind \in BinaryKinds -> HasTerminal(e.left) \/ HasTerminal(e.right)
      [] e.kind = "AssignExpr" -> HasTerminal(e.expression)
      [] OTHER -> FALSE

TerminalFree(m) ==
    /\ ~HasTerminal(m.expression)
    /\ \A name \in DOMAIN m.environment : ~HasTerminal(m.environment[name])

\* C13 (Terminal-with-environment placement): from an initial tree and
\* environment without TerminalExpr nodes, in every reachable state a
\* TerminalExpr occurs only as the whole current expression, produced by the
\* step that reduced an Assign whose right-hand side was terminal; it is never
\* a sub-expression of an Add, Multiply, LessThan or Assign, nor a value of
\* the environment.
C13_TerminalPlacement ==
    TerminalFree(start) =>
        /\ ~HasInnerTerminal(expression)
        /\ \A name \in DOMAIN environment : ~HasTerminal(environment[name])
        /\ expression.kind = "TerminalExpr" =>
               /\ Stepped
               /\ Before.expression.kind = "AssignExpr"
               /\ ~is_reducible(Before.expression.expression)

\* The Machine m holds a top-level Assign whose right-hand side is terminal.
Commits(m) ==
    /\ m.expression.kind = "AssignExpr"
    /\ ~is_reducible(m.expression.expression)

\* C14 (Commit is the only environment change): a step changes the
\* environment only when its result is a TerminalExpr, that is only when the
\* current expression is a top-level Assign(n, v) with v irreducible; that
\* step leaves every binding other than n as it was, and every other step
\* leaves the whole environment unchanged.
C14_CommitOnly ==
    Stepped =>
        IF Commits(Before)
        THEN /\ expression.kind = "TerminalExpr"
             /\ \A name \in (DOMAIN Before.environment \cup DOMAIN environment)
                            \ {Before.expression.name} :
                    /\ name \in DOMAIN Before.environment
                    /\ name \in DOMAIN environment
                    /\ environment[name] = Before.environment[name]
        ELSE /\ expression.kind # "TerminalExpr"
             /\ environment = Before.environment

\* A commit of x has changed the environment and kept the binding of y.
C14_Witness ==
    /\ Stepped
    /\ Commits(Before)
    /\ Before.expression.name = "x"
    /\ environment # Before.environment
    /\ "y" \in DOMAIN environment
    /\ steps >= 2

\* The panics of an unbound variable and of operands of the wrong kind.
UndefinedVariable == {PanicUnwrapNone}
TypeMismatch == {PanicInvalidExpression, PanicInvalidVariable}

\* C15 (No advance after failure): when a step fails with UndefinedVariable
\* or TypeMismatch, the expression and the environment are exactly those held
\* before the failing step, and no later step or trace line follows.
C15_NoAdvance ==
    /\ [](failure \in UndefinedVariable \cup TypeMismatch =>
              /\ Stepped
              /\ expression = Before.expression
              /\ environment = Before.environment
              /\ Len(trace) = steps)
    /\ [][(failure \in UndefinedVariable \cup TypeMismatch) =>
              (UNCHANGED <<expression, environment, trace, steps>>)]_vars

\* A run aborted by an unbound variable in its second step, after a first
\* step that went through.
C15_Witness ==
    /\ pc = "aborted"
    /\ failure = PanicUnwrapNone
    /\ steps = 2
    /\ Len(trace) = 2
    /\ trace[1] # trace[2]

\* The Machine m holds an Add or a Multiply of two Number operands.
NumberOperands(m) ==
    /\ m.expression.kind \in {"AddExpr", "MultiplyExpr"}
    /\ m.expression.left.kind = "NumberExpr"
    /\ m.expression.right.kind = "NumberExpr"

\* C16 (Exact sum and product): for every pair of Number operands, Add
\* yields the Number holding their mathematical sum and Multiply the one
\* holding their mathematical product; the result is never a wrapped
\* (mod 2^32) value and the step never fails on two Number operands.
C16_ExactSumProduct ==
    (Stepped /\ NumberOperands(Before)) =>
        /\ failure = NoFailure
        /\ expression.kind = "NumberExpr"
        /\ ToBig(expression.n) =
               IF Before.expression.kind = "AddExpr"
               THEN BigAdd(ToBig(Before.expression.left.n),
                           ToBig(Before.expression.right.n))
               ELSE BigMul(ToBig(Before.expression.left.n),
                           ToBig(Before.expression.right.n))

AllIrreducible(env) == \A name \in DOMAIN env : ~is_reducible(env[name])

\* C17 (Environment values stay terminal): from an initial environment whose
\* values are all irreducible, after any sequence of steps every value stored
\* in the environment is irreducible; an Assign never stores a right-hand
\* side that still has a pending reduction.
C17_ValuesStayTerminal ==
    AllIrreducible(start.environment) =>
        /\ AllIrreducible(environment)
        /\ (Stepped /\ environment # Before.environment) =>
               /\ Commits(Before)
               /\ environment[Before.expression.name] = Before.expression.expression

\* An Assign whose right-hand side needed reducing has committed its value.
C17_Witness ==
    /\ start.expression.kind = "AssignExpr"
    /\ is_reducible(start.expression.expression)
    /\ expression.kind = "TerminalExpr"
    /\ environment # start.environment
    /\ environment[start.expression.name].kind = "NumberExpr"

\* The number of reducible nodes (Add, Multiply, LessThan, Variable, Assign)
\* of the tree e.
RECURSIVE ReducibleNodes(_)
ReducibleNodes(e) ==
    CASE e.kind \in BinaryKinds ->
             1 + ReducibleNodes(e.left) + ReducibleNodes(e.right)
      [] e.kind = "AssignExpr" -> 1 + ReducibleNodes(e.expression)
      [] e.kind = "VariableExpr" -> 1
      [] OTHER -> 0

\* C18 (Step count): every step that does not fail lowers the number of
\* reducible nodes of the current expression tree by exactly one, so a run
\* that does not abort halts after exactly as many steps as the initial tree
\* has reducible nodes.
C18_StepCount ==
    /\ (Stepped /\ failure = NoFailure) =>
           ReducibleNodes(expression) = ReducibleNodes(Before.expression) - 1
    /\ pc = "done" => steps = ReducibleNodes(start.expression)

\* A run of a tree with three reducible nodes has halted after three steps.
C18_Witness ==
    /\ pc = "done"
    /\ ReducibleNodes(start.expression) = 3
    /\ steps = 3
    /\ start.expression.kind = "MultiplyExpr"

\* C19 (Embedded environment is ignored): the Env carried inside an Assign
\* node never influences a run: two Machines with the same environment and
\* the same tree but for the Envs carried by its Assign nodes produce the
\* same sequence of rendered expressions and Machine environments, and the
\* same final outcome.
C19_EmbeddedEnvIgnored ==
    /\ twin.trace = trace
    /\ Display(twin.expression) = Display(expression)
    /\ twin.environment = environment
    /\ twin.pc = pc
    /\ twin.failure = failure

\* Two runs of trees that differ in the Env of an Assign have both halted
\* after reading a variable and committing.
C19_Witness ==
    /\ twin.start # start.expression
    /\ pc = "done"
    /\ twin.pc = "done"
    /\ steps = 3
    /\ environment # start.environment
    /\ Len(twin.trace) = 4

====
